---- MODULE Spec2Model ----
(***************************************************************************)
(* energy-narrative: a three-scene d3 narrative chart.                     *)
(*                                                                         *)
(* The repository holds seven near-duplicate variants of script.js:        *)
(*   1  src/script.js          lines   1-283                               *)
(*   2  src/script.js          lines 284-464                               *)
(*   3  src/unnamed/part_000                                               *)
(*   4  src/unnamed/part_001   lines   1-180                               *)
(*   5  src/unnamed/part_001   lines 182-370                               *)
(*   6  src/unnamed/part_002                                               *)
(*   7  src/unnamed/part_003                                               *)
(* The model carries the variant as a state component fixed at start-up    *)
(* and translates each handler of each variant.                            *)
(*                                                                         *)
(* JavaScript is single threaded: every handler (the promise callbacks and *)
(* the click listeners) runs to completion, so each is one action.  The    *)
(* click listeners are registered synchronously while the script is        *)
(* evaluated, the promise callbacks run later: a click may be delivered    *)
(* before the load settles.                                                *)
(***************************************************************************)
EXTENDS Integers, Sequences, FiniteSets, TLC

VARIABLES
  variant,       \* which of the seven scripts is running
  data,          \* the array delivered by d3.csv (row objects, mutated by the derive step)
  phase,         \* "pending" | "loaded" | "empty" | "failed"
  world,         \* window.world: [defined, rows]
  currentScene,  \* let currentScene
  xDomain,       \* x.domain()
  yDomain,       \* y.domain()
  title,         \* text of #title: <<>> before any render, <<i>> for scene i
  chart,         \* children of the chart group g, in document order
  annotation,    \* children of #annotation, in document order
  prevDisabled,  \* #prev.disabled
  nextDisabled,  \* #next.disabled
  console,       \* set of console.error reports issued so far
  steps,         \* what the handler that last ran render() did to the page, in order
  lastEvent      \* what the most recent handler did

vars == <<variant, data, phase, world, currentScene, xDomain, yDomain, title,
          chart, annotation, prevDisabled, nextDisabled, console, steps, lastEvent>>

(***************************************************************************)
(* Bounds                                                                  *)
(***************************************************************************)
MaxRows == 2

(***************************************************************************)
(* JavaScript values: finite numbers, null, undefined, NaN, +-Infinity.    *)
(***************************************************************************)
Num(n) == [t |-> "num", v |-> n]
Null == [t |-> "null", v |-> 0]
Undef == [t |-> "undef", v |-> 0]
NaN == [t |-> "nan", v |-> 0]
Inf == [t |-> "inf", v |-> 1]
NegInf == [t |-> "inf", v |-> -1]

\* ToNumber: null -> 0, undefined -> NaN
ToNumber(a) ==
  CASE a.t = "null" -> Num(0)
    [] a.t = "undef" -> NaN
    [] OTHER -> a

\* a + b on numbers / null / undefined
JsAdd(a, b) ==
  LET x == ToNumber(a)
      y == ToNumber(b)
  IN  CASE x.t = "nan" \/ y.t = "nan" -> NaN
        [] x.t = "inf" /\ y.t = "inf" -> IF x.v = y.v THEN x ELSE NaN
        [] x.t = "inf" -> x
        [] y.t = "inf" -> y
        [] OTHER -> Num(x.v + y.v)

\* a / b * 100.  The input sets keep the quotient integral.
JsSharePct(a, b) ==
  LET x == ToNumber(a)
      y == ToNumber(b)
  IN  CASE x.t = "nan" \/ y.t = "nan" -> NaN
        [] x.t = "inf" \/ y.t = "inf" -> NaN
        [] y.v = 0 -> IF x.v = 0 THEN NaN ELSE IF x.v > 0 THEN Inf ELSE NegInf
        [] OTHER -> Num((x.v * 100) \div y.v)

\* a || 0
OrZero(a) ==
  IF a.t \in {"null", "undef", "nan"} \/ (a.t = "num" /\ a.v = 0) THEN Num(0) ELSE a

\* Number.isFinite(a): no coercion
NumberIsFinite(a) == a.t = "num"

\* isFinite(a): coerces first, so isFinite(null) is true
GlobalIsFinite(a) == ToNumber(a).t = "num"

\* a >= n for a number n; false on NaN, undefined
JsGeq(a, n) ==
  LET x == ToNumber(a)
  IN  CASE x.t = "num" -> x.v >= n
        [] x.t = "inf" -> x.v > 0
        [] OTHER -> FALSE

\* a < b between two numeric values (num or inf)
NumLess(a, b) ==
  CASE a.t = "num" /\ b.t = "num" -> a.v < b.v
    [] a.t = "inf" /\ b.t = "num" -> a.v < 0
    [] a.t = "num" /\ b.t = "inf" -> b.v > 0
    [] OTHER -> a.v < b.v

\* d3.max / d3.min skip null, undefined and NaN
Comparable(a) == a.t \in {"num", "inf"}

RECURSIVE D3MaxFrom(_, _, _)
D3MaxFrom(vals, i, acc) ==
  IF i > Len(vals) THEN acc
  ELSE IF Comparable(vals[i]) /\ (acc.t = "undef" \/ NumLess(acc, vals[i]))
       THEN D3MaxFrom(vals, i + 1, vals[i])
       ELSE D3MaxFrom(vals, i + 1, acc)

D3Max(vals) == D3MaxFrom(vals, 1, Undef)

RECURSIVE D3MinFrom(_, _, _)
D3MinFrom(vals, i, acc) ==
  IF i > Len(vals) THEN acc
  ELSE IF Comparable(vals[i]) /\ (acc.t = "undef" \/ NumLess(vals[i], acc))
       THEN D3MinFrom(vals, i + 1, vals[i])
       ELSE D3MinFrom(vals, i + 1, acc)

D3Min(vals) == D3MinFrom(vals, 1, Undef)

\* scale.domain([a, b]) stores Number(a), Number(b)
Domain(a, b) == [lo |-> ToNumber(a), hi |-> ToNumber(b)]

\* d3.scaleLinear() starts with the domain [0, 1]
DefaultDomain == Domain(Num(0), Num(1))

(***************************************************************************)
(* The variants, by what each one's code does                              *)
(***************************************************************************)
Variants == 1..7

\* scenes.length
SceneCount == 3

\* data.filter(d => d.country === "World") against d.iso_code === "OWID_WRL"
FiltersByCountry(v) == v \in {1, 2, 3, 4, 5}

\* the test applied to primary_energy_consumption by the row filter
PrimaryCheck(v) ==
  CASE v \in {1, 3, 4, 5} -> "Number.isFinite"
    [] v = 2 -> "isFinite"
    [] OTHER -> "none"

\* if (!world.length) return console.error(...)
ChecksEmpty(v) == v \in {1, 2, 3, 7}

\* (d.coal_consumption || 0) + ... against d.coal_consumption + ...
GuardsSums(v) == v \in {1, 3, 4, 5}

\* mutant: variant 1 drops the annotation clear, as variants 4 and 5 have it
ClearsAnnotationDropped(v) == v \in {2, 3, 6, 7}

\* render() empties #annotation
ClearsAnnotation(v) == v \in {1, 2, 3, 6, 7}

\* render() writes the disabled property of #prev and #next
UpdatesButtons(v) == v \in {1, 3, 4, 5}

\* the scenes call annotate()
Annotates(v) == v \in {1, 2, 6, 7}

\* the line scenes join one circle.datapoint per row
DrawsCircles(v) == v \in {1, 3, 4, 5}

\* drawAxes() appends axis label texts
DrawsAxisLabels(v) == v \in {1, 3, 4, 5}

\* the .defined() accessor of d3.line / d3.area (d3's default is "always")
Defined(v, a) ==
  CASE v \in {1, 3, 4, 5} -> NumberIsFinite(a)
    [] v = 2 -> GlobalIsFinite(a)
    [] OTHER -> TRUE

(***************************************************************************)
(* Row Filter and Series Deriver: the .then callback of d3.csv             *)
(***************************************************************************)
KeepRow(v, d) ==
  /\ IF FiltersByCountry(v) THEN d.country = "World" ELSE d.iso_code = "OWID_WRL"
  /\ CASE PrimaryCheck(v) = "Number.isFinite" -> NumberIsFinite(d.primary_energy_consumption)
       [] PrimaryCheck(v) = "isFinite" -> GlobalIsFinite(d.primary_energy_consumption)
       [] OTHER -> TRUE

Fossil(v, d) ==
  IF GuardsSums(v)
  THEN JsAdd(JsAdd(OrZero(d.coal_consumption), OrZero(d.oil_consumption)),
             OrZero(d.gas_consumption))
  ELSE JsAdd(JsAdd(d.coal_consumption, d.oil_consumption), d.gas_consumption)

ZeroCarbon(v, d) ==
  IF GuardsSums(v)
  THEN JsAdd(OrZero(d.nuclear_consumption), OrZero(d.renewables_consumption))
  ELSE JsAdd(d.nuclear_consumption, d.renewables_consumption)

\* mutant: the fossil sum accumulates onto the field (+= for =)
DeriveRowAccumulating(v, d) ==
  [d EXCEPT !.primary = d.primary_energy_consumption,
            !.renewablesShare = JsSharePct(d.renewables_consumption,
                                           d.primary_energy_consumption),
            !.fossil = JsAdd(OrZero(d.fossil), Fossil(v, d)),
            !.zeroCarbon = ZeroCarbon(v, d)]

\* world.forEach(d => { d.primary = ...; ... }): writes four fields on the row object
DeriveRow(v, d) ==
  [d EXCEPT !.primary = d.primary_energy_consumption,
            !.renewablesShare = JsSharePct(d.renewables_consumption,
                                           d.primary_energy_consumption),
            !.fossil = Fossil(v, d),
            !.zeroCarbon = ZeroCarbon(v, d)]

\* data.filter(...): the rows kept, in input order, from index i on
RECURSIVE WorldFrom(_, _, _)
WorldFrom(v, rows, i) ==
  IF i > Len(rows) THEN <<>>
  ELSE IF KeepRow(v, rows[i]) THEN <<rows[i]>> \o WorldFrom(v, rows, i + 1)
       ELSE WorldFrom(v, rows, i + 1)

World(v, rows) == WorldFrom(v, rows, 1)

\* the loader's array after the derive step: kept rows are mutated in place
Derived(v, rows) ==
  [i \in 1..Len(rows) |-> IF KeepRow(v, rows[i]) THEN DeriveRow(v, rows[i]) ELSE rows[i]]

\* the accessors handed to d3.extent and d3.max
Years(rows) == [i \in 1..Len(rows) |-> rows[i].year]

Primaries(rows) == [i \in 1..Len(rows) |-> rows[i].primary]

\* mutant: the maximum is taken over the fossil series alone
StackTotalsFossilOnly(rows) == [i \in 1..Len(rows) |-> rows[i].fossil]

StackTotals(rows) == [i \in 1..Len(rows) |-> JsAdd(rows[i].fossil, rows[i].zeroCarbon)]

\* mutant: the x-domain starts at 0 instead of the first year
XDomainFromZero(rows) == Domain(Num(0), D3Max(Years(rows)))

\* x.domain(d3.extent(world, d => d.year))
XDomainOf(rows) == Domain(D3Min(Years(rows)), D3Max(Years(rows)))

\* y.domain([0, d3.max(world, d => d.primary)])
PrimaryDomain(rows) == Domain(Num(0), D3Max(Primaries(rows)))

\* y.domain([0, 100])
ShareDomain == Domain(Num(0), Num(100))

\* y.domain([0, d3.max(world, d => d.fossil + d.zeroCarbon)])
StackDomain(rows) == Domain(Num(0), D3Max(StackTotals(rows)))

(***************************************************************************)
(* d3.stack().keys(["fossil","zeroCarbon"]) with the default offset        *)
(***************************************************************************)
FossilLayer(d) == [lo |-> Num(0), hi |-> ToNumber(d.fossil)]

ZeroCarbonLayer(d) ==
  LET below == FossilLayer(d)
      base == IF below.hi.t = "nan" THEN below.lo ELSE below.hi
  IN  [lo |-> base, hi |-> JsAdd(d.zeroCarbon, base)]

Layer(key, d) == IF key = "fossil" THEN FossilLayer(d) ELSE ZeroCarbonLayer(d)

(***************************************************************************)
(* The page: what render() and the scene routines read and write.          *)
(*   st = [title, y, chart, annotation, prevDisabled, nextDisabled, threw, *)
(*         steps]                                                          *)
(* An element records the scene whose routine appended it, the y-domain in *)
(* effect when it was positioned, and the rows of window.world that        *)
(* contribute a vertex or an anchor to it.                                 *)
(***************************************************************************)
\* the y.domain(...) call made for scene cs
DomainStep(cs) ==
  CASE cs = 0 -> "domain0"
    [] cs = 1 -> "domain1"
    [] OTHER -> "domain2"

Did(st, step) == [st EXCEPT !.steps = Append(@, step)]

Elem(kind, scene, y, rows, key) ==
  [kind |-> kind, scene |-> scene, y |-> y, rows |-> rows, key |-> key]

\* g.selectAll("circle.datapoint").data(world).join("circle"): one per row
Circles(v, scene, y, rows) ==
  IF DrawsCircles(v)
  THEN [i \in 1..Len(rows) |-> Elem("circle", scene, y, {i}, "")]
  ELSE <<>>

\* drawAxes()
Axes(v, scene, y) ==
  IF DrawsAxisLabels(v)
  THEN <<Elem("axis", scene, y, {}, "y"), Elem("text", scene, y, {}, "y"),
         Elem("axis", scene, y, {}, "x"), Elem("text", scene, y, {}, "x")>>
  ELSE <<Elem("axis", scene, y, {}, "y"), Elem("axis", scene, y, {}, "x")>>

\* mutant: the overlay is appended twice
AnnotateTwice(st, scene, i) ==
  Did([st EXCEPT !.annotation = Append(Append(@, Elem("callout", scene, st.y, {i}, "")),
                                       Elem("callout", scene, st.y, {i}, ""))], "annotate")

\* annotate(year, val, ...): appends one svg overlay to #annotation
Annotate(st, scene, i) ==
  Did([st EXCEPT !.annotation = Append(@, Elem("callout", scene, st.y, {i}, ""))], "annotate")

\* mutant: the last matching row instead of the first
FindCrossLast(rows) ==
  LET hits == {i \in 1..Len(rows) : JsGeq(rows[i].renewablesShare, 10)}
  IN  IF hits = {} THEN 0 ELSE CHOOSE i \in hits : \A j \in hits : i >= j

\* world.find(d => d.renewablesShare >= 10): 0 stands for undefined
FindCross(rows) ==
  LET hits == {i \in 1..Len(rows) : JsGeq(rows[i].renewablesShare, 10)}
  IN  IF hits = {} THEN 0 ELSE CHOOSE i \in hits : \A j \in hits : i <= j

\* the row scene 0 annotates: world[0] in variant 1, world[world.length - 1] otherwise
Scene0Anchor(v, rows) == IF v = 1 THEN 1 ELSE Len(rows)

\* world[Math.floor(world.length / 2)], as a 1-based index
MidIndex(rows) == (Len(rows) \div 2) + 1

\* With window.world unset, g.append("path") has already run when the scene
\* throws: on the reference to world (.datum(world)), or, in variant 3 which
\* reads window.world, when the line generator is applied to undefined.
scene0(v, w, st) ==
  IF ~w.defined
  THEN Did([st EXCEPT !.chart = Append(@, Elem("path", 0, st.y, {}, "")), !.threw = TRUE],
           "draw")
  ELSE LET pts == {i \in 1..Len(w.rows) : Defined(v, w.rows[i].primary)}
           drawn == Did([st EXCEPT !.chart = (@ \o <<Elem("line", 0, st.y, pts, "")>>)
                                               \o Circles(v, 0, st.y, w.rows)
                                               \o Axes(v, 0, st.y)], "draw")
       IN  IF ~Annotates(v) THEN drawn
           ELSE IF Len(w.rows) = 0 THEN [drawn EXCEPT !.threw = TRUE]
           ELSE Annotate(drawn, 0, Scene0Anchor(v, w.rows))

scene1(v, w, st) ==
  LET s1 == Did([st EXCEPT !.y = ShareDomain], DomainStep(1))
  IN  IF ~w.defined
      THEN Did([s1 EXCEPT !.chart = Append(@, Elem("path", 1, s1.y, {}, "")), !.threw = TRUE],
               "draw")
      ELSE LET pts == {i \in 1..Len(w.rows) : Defined(v, w.rows[i].renewablesShare)}
               drawn == Did([s1 EXCEPT !.chart = (@ \o <<Elem("line", 1, s1.y, pts, "")>>)
                                                   \o Circles(v, 1, s1.y, w.rows)
                                                   \o Axes(v, 1, s1.y)], "draw")
               cross == FindCross(w.rows)
           IN  IF ~Annotates(v) THEN drawn
               ELSE IF cross = 0 THEN [drawn EXCEPT !.threw = TRUE]
               ELSE Annotate(drawn, 1, cross)

scene2(v, w, st) ==
  IF ~w.defined
  THEN [st EXCEPT !.threw = TRUE]
  ELSE LET s2 == Did([st EXCEPT !.y = StackDomain(w.rows)], DomainStep(2))
           pts(key) == {i \in 1..Len(w.rows) :
                          /\ Defined(v, Layer(key, w.rows[i]).lo)
                          /\ Defined(v, Layer(key, w.rows[i]).hi)}
           drawn == Did([s2 EXCEPT !.chart =
                           (@ \o <<Elem("area", 2, s2.y, pts("fossil"), "fossil"),
                                   Elem("area", 2, s2.y, pts("zeroCarbon"), "zeroCarbon")>>)
                             \o Axes(v, 2, s2.y)], "draw")
       IN  IF ~Annotates(v) THEN drawn
           ELSE IF Len(w.rows) = 0 THEN [drawn EXCEPT !.threw = TRUE]
           ELSE Annotate(drawn, 2, MidIndex(w.rows))

\* scenes[currentScene]()
DrawScene(v, cs, w, st) ==
  CASE cs = 0 -> scene0(v, w, st)
    [] cs = 1 -> scene1(v, w, st)
    [] OTHER -> scene2(v, w, st)

\* the clearing statements of render(), in each variant's order
ClearSteps(v) ==
  CASE v = 3 -> <<"clearChart", "clearAnnotation">>
    [] v \in {4, 5} -> <<"clearChart">>
    [] OTHER -> <<"clearAnnotation", "clearChart">>

\* render(): title, clear, draw, then (where the variant has it) the button update,
\* which an exception thrown by the scene routine skips
render(v, cs, w, st) ==
  LET cleared == [st EXCEPT !.title = <<cs>>,
                            !.annotation = IF ClearsAnnotation(v) THEN <<>> ELSE @,
                            !.chart = <<>>,
                            !.threw = FALSE,
                            !.steps = @ \o <<"title">> \o ClearSteps(v)]
      drawn == DrawScene(v, cs, w, cleared)
  IN  IF drawn.threw \/ ~UpdatesButtons(v) THEN drawn
      ELSE Did([drawn EXCEPT !.prevDisabled = (cs = 0),
                             !.nextDisabled = (cs = SceneCount - 1)], "buttons")

\* the page as the state holds it
Page ==
  [title |-> title, y |-> yDomain, chart |-> chart, annotation |-> annotation,
   prevDisabled |-> prevDisabled, nextDisabled |-> nextDisabled, threw |-> FALSE,
   steps |-> <<>>]

SetPage(st) ==
  /\ title' = st.title
  /\ yDomain' = st.y
  /\ chart' = st.chart
  /\ annotation' = st.annotation
  /\ prevDisabled' = st.prevDisabled
  /\ nextDisabled' = st.nextDisabled
  /\ steps' = st.steps

\* loadScene: the index the .then callback found when it ran
Event(op, from, rendered, threw) ==
  [op |-> op, from |-> from, pending |-> (phase = "pending"), rendered |-> rendered,
   threw |-> threw, loadScene |-> IF phase = "pending" THEN from ELSE lastEvent.loadScene]

(***************************************************************************)
(* Inputs: the rows the loader may deliver.  d3.autoType turns an empty    *)
(* cell into null.  Rows come in source order, one per year.               *)
(***************************************************************************)
WorldEntity == [country |-> "World", iso_code |-> "OWID_WRL"]

OtherEntity == [country |-> "France", iso_code |-> "FRA"]

PrimaryValues == {Null, Num(100), Num(200)}

RenewablesValues == {Null, Num(10)}

RawRow(e, p, r) ==
  [country |-> e.country, iso_code |-> e.iso_code, year |-> Num(0),
   primary_energy_consumption |-> p, renewables_consumption |-> r,
   coal_consumption |-> Num(50), oil_consumption |-> Num(60), gas_consumption |-> Num(40),
   nuclear_consumption |-> Null,
   primary |-> Undef, renewablesShare |-> Undef, fossil |-> Undef, zeroCarbon |-> Undef]

\* the world aggregate with every combination of the two metrics, and one
\* country row whose metrics exceed every world row's
InputRows ==
  {RawRow(WorldEntity, p, r) : p \in PrimaryValues, r \in RenewablesValues}
    \cup {RawRow(OtherEntity, Num(300), Num(60))}

Inputs ==
  UNION {{[i \in 1..n |-> [f[i] EXCEPT !.year = Num(1964 + i)]] : f \in [1..n -> InputRows]} :
           n \in 0..MaxRows}

(***************************************************************************)
(* State after the script has been evaluated: the scales exist with d3's   *)
(* default domain, the listeners are registered, the request is in flight. *)
(* The disabled attributes come from the page's markup.                    *)
(***************************************************************************)
Init ==
  /\ variant \in Variants
  /\ data \in Inputs
  /\ phase = "pending"
  /\ world = [defined |-> FALSE, rows |-> <<>>]
  /\ currentScene = 0
  /\ xDomain = DefaultDomain
  /\ yDomain = DefaultDomain
  /\ title = <<>>
  /\ chart = <<>>
  /\ annotation = <<>>
  /\ prevDisabled \in BOOLEAN
  /\ nextDisabled \in BOOLEAN
  /\ console = {}
  /\ steps = <<>>
  /\ lastEvent = [op |-> "none", from |-> 0, pending |-> TRUE, rendered |-> FALSE,
                  threw |-> FALSE, loadScene |-> 0]

(***************************************************************************)
(* d3.csv(...).then(data => ...): filter, empty check, derive, domains,    *)
(* window.world, initial render.  An exception thrown by the initial       *)
(* render lands in the .catch of the same chain.                           *)
(***************************************************************************)
LoadResolve ==
  /\ phase = "pending"
  /\ LET rows == World(variant, data)
     IN  IF ChecksEmpty(variant) /\ Len(rows) = 0
         THEN /\ phase' = "empty"
              /\ console' = console \cup {"empty"}
              /\ lastEvent' = Event("resolve", currentScene, FALSE, FALSE)
              /\ UNCHANGED <<variant, data, world, currentScene, xDomain, yDomain, title,
                             chart, annotation, prevDisabled, nextDisabled, steps>>
         ELSE LET derived == Derived(variant, data)
                  w == [defined |-> TRUE, rows |-> World(variant, derived)]
                  st == render(variant, currentScene, w,
                               Did([Page EXCEPT !.y = PrimaryDomain(w.rows)],
                                   DomainStep(0)))
              IN  /\ phase' = "loaded"
                  /\ data' = derived
                  /\ world' = w
                  /\ xDomain' = XDomainOf(w.rows)
                  /\ SetPage(st)
                  /\ console' = IF st.threw THEN console \cup {"loadfailed"} ELSE console
                  /\ lastEvent' = Event("resolve", currentScene, TRUE, st.threw)
                  /\ UNCHANGED <<variant, currentScene>>

\* .catch(err => console.error("Data load failed:", err))
LoadReject ==
  /\ phase = "pending"
  /\ phase' = "failed"
  /\ console' = console \cup {"loadfailed"}
  /\ lastEvent' = Event("reject", currentScene, FALSE, FALSE)
  /\ UNCHANGED <<variant, data, world, currentScene, xDomain, yDomain, title, chart,
                 annotation, prevDisabled, nextDisabled, steps>>

\* a click listener: step the index, then render(); an exception thrown by
\* render() leaves the listener uncaught.  The listener has no guard of its
\* own on the load or on the disabled property: it runs for every click
\* event dispatched to the control.
Click(op, target) ==
  LET st == render(variant, target, world, Page)
  IN  /\ currentScene' = target
      /\ SetPage(st)
      /\ lastEvent' = Event(op, currentScene, TRUE, st.threw)
      /\ UNCHANGED <<variant, data, phase, world, xDomain, console>>

\* mutant: the backward step wraps around to the last scene
PrevTargetWrapping(cs) == IF cs > 0 THEN cs - 1 ELSE SceneCount - 1

\* if (currentScene > 0) currentScene--;
PrevTarget(cs) == IF cs > 0 THEN cs - 1 ELSE cs

\* mutant: the forward step without its guard
NextTargetUnguarded(cs) == cs + 1

\* if (currentScene < scenes.length - 1) currentScene++;
NextTarget(cs) == IF cs < SceneCount - 1 THEN cs + 1 ELSE cs

ClickPrev == Click("prev", PrevTarget(currentScene))

ClickNext == Click("next", NextTarget(currentScene))

Next == LoadResolve \/ LoadReject \/ ClickPrev \/ ClickNext

Spec == Init /\ [][Next]_vars

(***************************************************************************)
(* The derive step as a function of one row: every combination of present, *)
(* null (empty cell) and undefined (column absent) components, and a zero  *)
(* primary.  The load runs on the row, then the derive step is applied to  *)
(* the derived rows a second time.                                         *)
(***************************************************************************)
ComponentValues == {Null, Undef, Num(50)}

DerivePrimaryValues == {Null, Num(0), Num(100), Num(200)}

DeriveRenewablesValues == {Null, Undef, Num(10)}

DeriveRows ==
  {[RawRow(WorldEntity, p, r) EXCEPT !.year = Num(1965),
                                     !.coal_consumption = c,
                                     !.oil_consumption = o,
                                     !.gas_consumption = g,
                                     !.nuclear_consumption = n] :
     p \in DerivePrimaryValues, r \in DeriveRenewablesValues,
     c \in ComponentValues, o \in ComponentValues, g \in ComponentValues,
     n \in ComponentValues}

InitDerive ==
  /\ variant \in Variants
  /\ data \in {<<d>> : d \in DeriveRows}
  /\ phase = "pending"
  /\ world = [defined |-> FALSE, rows |-> <<>>]
  /\ currentScene = 0
  /\ xDomain = DefaultDomain
  /\ yDomain = DefaultDomain
  /\ title = <<>>
  /\ chart = <<>>
  /\ annotation = <<>>
  /\ prevDisabled = FALSE
  /\ nextDisabled = FALSE
  /\ console = {}
  /\ steps = <<>>
  /\ lastEvent = [op |-> "none", from |-> 0, pending |-> TRUE, rendered |-> FALSE,
                  threw |-> FALSE, loadScene |-> 0]

\* world.forEach(d => { ... }) applied once more to the rows of window.world
DeriveAgain ==
  /\ phase = "loaded"
  /\ lastEvent.op # "rederive"
  /\ data' = Derived(variant, data)
  /\ world' = [world EXCEPT !.rows = [i \in 1..Len(@) |-> DeriveRow(variant, @[i])]]
  /\ lastEvent' = Event("rederive", currentScene, FALSE, FALSE)
  /\ UNCHANGED <<variant, phase, currentScene, xDomain, yDomain, title, chart, annotation,
                 prevDisabled, nextDisabled, console, steps>>

NextDerive == LoadResolve \/ DeriveAgain

SpecDerive == InitDerive /\ [][NextDerive]_vars

(***************************************************************************)
(* The page over one row whose stacked series may be missing: coal,        *)
(* nuclear and renewables each present, null or undefined.  The load and   *)
(* the clicks are those of the page.                                       *)
(***************************************************************************)
StackRows ==
  {[RawRow(WorldEntity, Num(100), r) EXCEPT !.year = Num(1965),
                                            !.coal_consumption = c,
                                            !.nuclear_consumption = n] :
     r \in DeriveRenewablesValues, c \in ComponentValues, n \in ComponentValues}

InitStack ==
  /\ variant \in Variants
  /\ data \in {<<d>> : d \in StackRows}
  /\ phase = "pending"
  /\ world = [defined |-> FALSE, rows |-> <<>>]
  /\ currentScene = 0
  /\ xDomain = DefaultDomain
  /\ yDomain = DefaultDomain
  /\ title = <<>>
  /\ chart = <<>>
  /\ annotation = <<>>
  /\ prevDisabled = TRUE
  /\ nextDisabled = FALSE
  /\ console = {}
  /\ steps = <<>>
  /\ lastEvent = [op |-> "none", from |-> 0, pending |-> TRUE, rendered |-> FALSE,
                  threw |-> FALSE, loadScene |-> 0]

SpecStack == InitStack /\ [][Next]_vars

(***************************************************************************)
(* Properties                                                              *)
(***************************************************************************)
Clicked == lastEvent.op \in {"prev", "next"}

\* the last handler ran render() with window.world set
RenderedWithData == phase = "loaded" /\ lastEvent.rendered

\* C1: whenever the line of scene 0 is drawn, on the initial render and on
\* every return to index 0, the y-domain in effect is [0, max(primary)] of
\* the dataset.
C1_Scene0UsesPrimaryDomain ==
  \A i \in 1..Len(chart) :
    (chart[i].kind = "line" /\ chart[i].scene = 0) => chart[i].y = PrimaryDomain(world.rows)

\* C2: a previous/next click that arrives while the load is pending does
\* not invoke render().
C2_NoRenderWhilePending == (Clicked /\ lastEvent.pending) => ~lastEvent.rendered

\* C3: clicks delivered before the dataset is available leave currentScene
\* at 0, so the render performed when the load completes is a render of
\* scene 0.
C3_InertUntilLoaded ==
  /\ phase = "pending" => currentScene = 0
  /\ (lastEvent.op = "resolve" /\ lastEvent.rendered) => title = <<0>>

\* C4: in every reachable state the scene index satisfies
\* 0 <= currentScene <= 2.
C4_IndexInRange == currentScene \in 0..(SceneCount - 1)

\* C4 witness: with the dataset loaded, 'next' was clicked at the last index.
C4_Witness ==
  /\ phase = "loaded"
  /\ lastEvent.op = "next" /\ lastEvent.from = SceneCount - 1
  /\ currentScene = SceneCount - 1

\* C5: 'previous' at index 0 leaves the index at 0 and the previous control
\* disabled; 'next' at index 2 leaves the index at 2; at index 1 'previous'
\* yields 0 and 'next' yields 2; no click changes the index by more than 1.
C5_SaturatingSteps ==
  /\ (lastEvent.op = "prev" /\ lastEvent.from = 0) => (currentScene = 0 /\ prevDisabled)
  /\ (lastEvent.op = "next" /\ lastEvent.from = 2) => currentScene = 2
  /\ (lastEvent.op = "prev" /\ lastEvent.from = 1) => currentScene = 0
  /\ (lastEvent.op = "next" /\ lastEvent.from = 1) => currentScene = 2
  /\ Clicked => (currentScene - lastEvent.from) \in {-1, 0, 1}

\* C6: after the load fails the failure is reported, and no later click
\* runs a scene draw routine, clears or partially draws the chart, or
\* raises an uncaught exception.
C6_FailedLoadStaysPreRender ==
  phase = "failed" =>
    /\ "loadfailed" \in console
    /\ (Clicked /\ ~lastEvent.pending) => (~lastEvent.rendered /\ ~lastEvent.threw)

\* C7: in every variant, when the load succeeds and the Row Filter retains
\* zero rows, the empty dataset is reported as such (not as a load failure)
\* and neither the initial render nor a later click draws a scene or throws.
C7_EmptyDatasetAborts ==
  (phase \in {"loaded", "empty"} /\ Len(World(variant, data)) = 0) =>
    /\ "empty" \in console
    /\ "loadfailed" \notin console
    /\ ~lastEvent.rendered
    /\ ~lastEvent.threw

\* C8: when no retained row has renewablesShare >= 10, rendering scene 1
\* omits the callout and completes: no exception, the line and the axes are
\* drawn, the button states are updated.
C8_NoMilestoneRendersNormally ==
  (RenderedWithData /\ currentScene = 1 /\ FindCross(world.rows) = 0) =>
    /\ ~lastEvent.threw
    /\ annotation = <<>>
    /\ \E i \in 1..Len(chart) : chart[i].kind = "line"
    /\ \E i \in 1..Len(chart) : chart[i].kind = "axis"
    /\ ~prevDisabled
    /\ ~nextDisabled

\* C9: after every render the chart group and the annotation layer hold
\* only elements appended by the current scene's draw routine.
C9_OnlyCurrentSceneElements ==
  /\ \A i \in 1..Len(chart) : chart[i].scene = currentScene
  /\ \A i \in 1..Len(annotation) : annotation[i].scene = currentScene

\* C9 witness: back at scene 0 from scene 1, which was entered from scene 2
\* or scene 0, with marks and a callout on the page.
C9_Witness ==
  /\ phase = "loaded"
  /\ lastEvent.op = "prev" /\ lastEvent.from = 1 /\ currentScene = 0
  /\ Len(chart) > 0 /\ Len(annotation) > 0

\* C10: once the dataset is loaded, after the initial render and after
\* every click, 'previous' is disabled iff currentScene = 0 and 'next' is
\* disabled iff currentScene = 2, in every variant and also when the scene
\* draw routine fails.
C10_ButtonsMatchIndex ==
  phase = "loaded" =>
    /\ prevDisabled <=> (currentScene = 0)
    /\ nextDisabled <=> (currentScene = SceneCount - 1)

\* position of the first occurrence of a step, 0 when it did not happen
First(seq, step) ==
  LET at == {i \in 1..Len(seq) : seq[i] = step}
  IN  IF at = {} THEN 0 ELSE CHOOSE i \in at : \A j \in at : i <= j

\* C11: every render with the dataset present, the initial one included,
\* performs all of: title update, clear of the chart group and of the
\* annotation layer, y-domain of the new scene, marks, button update; the
\* title comes before the clear, no mark is drawn before the clear or before
\* the scene's own domain is set, and the button update comes last.  (The
\* domain call and the clear are independent statements: their relative
\* order is not constrained here.)
C11_RenderStepsInOrder ==
  RenderedWithData =>
    LET t == First(steps, "title")
        cc == First(steps, "clearChart")
        ca == First(steps, "clearAnnotation")
        d == First(steps, DomainStep(currentScene))
        m == First(steps, "draw")
        b == First(steps, "buttons")
    IN  /\ t > 0 /\ cc > t /\ ca > t
        /\ d > 0
        /\ m > d /\ m > cc /\ m > ca
        /\ b > m

\* C12: in every variant the retained dataset holds only rows of the world
\* aggregate whose primary_energy_consumption is present and finite (null
\* excluded), in input order, and no more rows than the input.
C12_FilterKeepsFiniteWorldRows ==
  phase = "loaded" =>
    /\ Len(world.rows) <= Len(data)
    /\ \A i \in 1..Len(world.rows) :
         /\ IF FiltersByCountry(variant)
            THEN world.rows[i].country = "World"
            ELSE world.rows[i].iso_code = "OWID_WRL"
         /\ world.rows[i].primary_energy_consumption.t = "num"
         /\ \E j \in 1..Len(data) : data[j] = world.rows[i]
    /\ \A i, k \in 1..Len(world.rows) :
         i < k => world.rows[i].year.v < world.rows[k].year.v

\* a component read as "present number, else 0"
Val0(a) == IF a.t = "num" THEN a.v ELSE 0

\* C13: for every retained row, renewablesShare is finite if and only if
\* renewables_consumption is present (not null, not undefined) and primary
\* is not 0; a row without renewables_consumption never gets a finite share.
C13_ShareFiniteIffPresent ==
  phase = "loaded" =>
    \A i \in 1..Len(world.rows) :
      LET d == world.rows[i]
      IN  (d.renewablesShare.t = "num") <=>
            (/\ d.renewables_consumption.t \notin {"null", "undef"}
             /\ ~(d.primary.t = "num" /\ d.primary.v = 0))

\* C14: for every retained row and every combination of present and absent
\* (null or undefined) components, in every variant, fossil equals
\* (coal or 0) + (oil or 0) + (gas or 0) and zeroCarbon equals
\* (nuclear or 0) + (renewables or 0).
C14_SumsTreatMissingAsZero ==
  phase = "loaded" =>
    \A i \in 1..Len(world.rows) :
      LET d == world.rows[i]
      IN  /\ d.fossil = Num(Val0(d.coal_consumption) + Val0(d.oil_consumption)
                              + Val0(d.gas_consumption))
          /\ d.zeroCarbon = Num(Val0(d.nuclear_consumption)
                                  + Val0(d.renewables_consumption))

\* the stacked total of a row whose two series are numbers
Total(d) == d.fossil.v + d.zeroCarbon.v

\* C15: every element drawn by scene 1 was positioned under the y-domain
\* [0, 100]; every element drawn by scene 2 over a non-empty dataset was
\* positioned under [0, m] where m is the stacked total fossil + zeroCarbon
\* of some row and no row's stacked total exceeds m; whatever clicks led
\* to the scene.
C15_SceneDomains ==
  \A k \in 1..Len(chart) :
    /\ chart[k].scene = 1 =>
         /\ chart[k].y = [lo |-> Num(0), hi |-> Num(100)]
         /\ currentScene = 1 => yDomain = chart[k].y
    /\ (chart[k].scene = 2 /\ Len(world.rows) > 0) =>
         /\ chart[k].y.lo = Num(0)
         /\ chart[k].y.hi.t = "num"
         /\ \E i \in 1..Len(world.rows) : chart[k].y.hi.v = Total(world.rows[i])
         /\ \A i \in 1..Len(world.rows) : Total(world.rows[i]) <= chart[k].y.hi.v
         /\ currentScene = 2 => yDomain = chart[k].y

\* scene 2 reached by clicks, over rows whose stacked totals differ and whose
\* largest total exceeds every row's fossil value
C15_Witness ==
  /\ Clicked
  /\ currentScene = 2
  /\ \E k \in 1..Len(chart) : chart[k].scene = 2 /\ chart[k].kind = "area"
  /\ \E i, j \in 1..Len(world.rows) : Total(world.rows[i]) < Total(world.rows[j])
  /\ \A i \in 1..Len(world.rows) : world.rows[i].fossil.v < yDomain.hi.v

\* the value an element of the given scene plots for a row
Finite(a) == a.t = "num"

\* C16: in every variant, every row that contributes a vertex to a line or
\* area, or a hover marker, has a finite plotted value: primary in scene 0,
\* renewablesShare in scene 1, both boundaries of the layer in scene 2.
C16_NoMarkFromNonFinite ==
  \A k \in 1..Len(chart) :
    chart[k].kind \in {"line", "area", "circle"} =>
      \A i \in chart[k].rows :
        CASE chart[k].scene = 0 -> Finite(world.rows[i].primary)
          [] chart[k].scene = 1 -> Finite(world.rows[i].renewablesShare)
          [] OTHER -> /\ Finite(Layer(chart[k].key, world.rows[i]).lo)
                      /\ Finite(Layer(chart[k].key, world.rows[i]).hi)

\* renewablesShare >= 10 as the comparison evaluates it
AtLeastTen(a) == (a.t = "num" /\ a.v >= 10) \/ a.t = "inf"

\* C17: the row a scene 1 callout is anchored at has renewablesShare >= 10
\* and every earlier row has a share below 10 or a non-finite one; where the
\* variant draws callouts and scene 1 has rendered over a dataset with such a
\* row, the callout is there.
C17_CalloutAtFirstCrossing ==
  /\ \A k \in 1..Len(annotation) :
       (annotation[k].kind = "callout" /\ annotation[k].scene = 1) =>
         \A i \in annotation[k].rows :
           /\ AtLeastTen(world.rows[i].renewablesShare)
           /\ \A j \in 1..(i - 1) : ~AtLeastTen(world.rows[j].renewablesShare)
  /\ (/\ RenderedWithData /\ currentScene = 1 /\ Annotates(variant)
      /\ \E i \in 1..Len(world.rows) : AtLeastTen(world.rows[i].renewablesShare)) =>
       \E k \in 1..Len(annotation) :
         annotation[k].kind = "callout" /\ annotation[k].scene = 1

\* a scene 1 callout on the second row, after a first row whose share is 5
C17_Witness ==
  /\ currentScene = 1
  /\ Len(world.rows) >= 2
  /\ world.rows[1].renewablesShare = Num(5)
  /\ \E k \in 1..Len(annotation) :
       annotation[k].kind = "callout" /\ annotation[k].scene = 1 /\ annotation[k].rows = {2}

\* C18: applying the derive step to the already-derived rows leaves primary,
\* renewablesShare, fossil and zeroCarbon of every row as the first
\* application set them.
C18_DeriveIdempotent ==
  [][lastEvent'.op = "rederive" =>
       /\ Len(world'.rows) = Len(world.rows)
       /\ \A i \in 1..Len(world.rows) :
            /\ world'.rows[i].primary = world.rows[i].primary
            /\ world'.rows[i].renewablesShare = world.rows[i].renewablesShare
            /\ world'.rows[i].fossil = world.rows[i].fossil
            /\ world'.rows[i].zeroCarbon = world.rows[i].zeroCarbon]_vars

\* the derive step has run twice on a row with non-zero sums and a finite share
C18_Witness ==
  /\ lastEvent.op = "rederive"
  /\ Len(world.rows) = 1
  /\ world.rows[1].fossil = Num(150)
  /\ world.rows[1].zeroCarbon = Num(60)
  /\ world.rows[1].renewablesShare = Num(10)

\* C19: the row objects delivered by the loader are never changed: no step
\* adds or overwrites a field on them.
C19_RawRowsUnchanged == [][data' = data]_vars

\* C20: once window.world is set, every step (click or render) leaves the
\* dataset, the loader's rows and the x-domain as they are, and over a
\* non-empty dataset the x-domain is [least year, greatest year] of the
\* retained rows.
C20_DatasetAndXDomainFrozen ==
  /\ [](world.defined /\ Len(world.rows) > 0 =>
          /\ xDomain.lo.t = "num" /\ xDomain.hi.t = "num"
          /\ \E i \in 1..Len(world.rows) : world.rows[i].year = xDomain.lo
          /\ \E i \in 1..Len(world.rows) : world.rows[i].year = xDomain.hi
          /\ \A i \in 1..Len(world.rows) :
               /\ xDomain.lo.v <= world.rows[i].year.v
               /\ world.rows[i].year.v <= xDomain.hi.v)
  /\ [][world.defined => (world' = world /\ data' = data /\ xDomain' = xDomain)]_vars

\* scene 2 reached by clicks over two retained rows of different years
C20_Witness ==
  /\ Clicked
  /\ currentScene = 2
  /\ Len(world.rows) >= 2
  /\ xDomain.lo.v < xDomain.hi.v
  /\ \E k \in 1..Len(chart) : chart[k].scene = 2

\* fossil + zeroCarbon as a number, NaN when either is not a number
Sum(d) == IF Finite(d.fossil) /\ Finite(d.zeroCarbon) THEN Num(Total(d)) ELSE NaN

\* C21: when scene 2 is drawn, the fossil area comes before the zeroCarbon
\* area, and for every row the fossil layer spans [0, fossil] and the
\* zeroCarbon layer spans [fossil, fossil + zeroCarbon], so the zeroCarbon
\* layer starts where the fossil layer ends.
C21_StackLayers ==
  \A k \in 1..Len(chart) :
    (chart[k].kind = "area" /\ chart[k].key = "zeroCarbon") =>
      /\ \E j \in 1..(k - 1) : chart[j].kind = "area" /\ chart[j].key = "fossil"
      /\ \A i \in 1..Len(world.rows) :
           LET d == world.rows[i]
           IN  /\ Layer("fossil", d) = [lo |-> Num(0), hi |-> d.fossil]
               /\ Layer("zeroCarbon", d) = [lo |-> d.fossil, hi |-> Sum(d)]
               /\ Layer("zeroCarbon", d).lo = Layer("fossil", d).hi

\* the page as the initial render of scene 0 leaves it for the first click
AfterLoad ==
  [Page EXCEPT !.y = PrimaryDomain(world.rows),
               !.prevDisabled = IF UpdatesButtons(variant) THEN TRUE ELSE @,
               !.nextDisabled = IF UpdatesButtons(variant) THEN FALSE ELSE @]

\* C22: after a load that rendered scene 0, the title, y-domain, marks and
\* button states shown after any click sequence are those shown when the
\* same index is reached from the freshly loaded page by 'next' clicks
\* alone (none for index 0, where a 'previous' click re-renders the scene).
C22_HistoryIndependent ==
  (phase = "loaded" /\ Clicked /\ ~lastEvent.pending /\ lastEvent.loadScene = 0) =>
    LET ref == render(variant, currentScene, world, AfterLoad)
    IN  /\ title = ref.title
        /\ yDomain = ref.y
        /\ chart = ref.chart
        /\ prevDisabled = ref.prevDisabled
        /\ nextDisabled = ref.nextDisabled

\* C23: a 'next' click moves the index up by one and stops at 2, a
\* 'previous' click moves it down by one and stops at 0, from any index and
\* whether or not the load has completed; so a second consecutive click
\* in one direction leaves the index at that end, and so does every
\* further one.
C23_TwoClicksSaturate ==
  [][/\ lastEvent'.op = "next" =>
          currentScene' = IF currentScene < 2 THEN currentScene + 1 ELSE 2
     /\ lastEvent'.op = "prev" =>
          currentScene' = IF currentScene > 0 THEN currentScene - 1 ELSE 0
     /\ (lastEvent.op = "next" /\ lastEvent'.op = "next") => currentScene' = 2
     /\ (lastEvent.op = "prev" /\ lastEvent'.op = "prev") => currentScene' = 0]_vars

\* a third 'previous' click in a row: the index was already 0 and stays there
C23_Witness ==
  /\ phase = "loaded"
  /\ lastEvent.op = "prev" /\ lastEvent.from = 0 /\ currentScene = 0
  /\ lastEvent.loadScene = 2

\* C24: in the first variant of src/script.js the annotation layer never
\* holds more than one overlay, every overlay it holds is a callout of the
\* current scene, and after a render that ran to its end it holds exactly
\* one.
C24_AtMostOneCallout ==
  variant = 1 =>
    /\ Len(annotation) <= 1
    /\ \A k \in 1..Len(annotation) :
         annotation[k].kind = "callout" /\ annotation[k].scene = currentScene
    /\ (lastEvent.rendered /\ ~lastEvent.threw) => Len(annotation) = 1

\* the first variant back at scene 1 from scene 2, after at least four
\* renders, with its callout on the page
C24_Witness ==
  /\ variant = 1
  /\ phase = "loaded" /\ lastEvent.loadScene = 0
  /\ lastEvent.op = "prev" /\ lastEvent.from = 2 /\ currentScene = 1
  /\ Len(annotation) = 1
  /\ annotation[1].scene = 1

====
